---- MODULE Spec2Model ----
(***************************************************************************)
(* Model of the ClawWork Cloud API (src/main.py): the economic ledger      *)
(* (EconomicTracker), the research pipeline (run_research), the Fiverr     *)
(* order lifecycle (FiverrTracker and its endpoints), the OAuth 1.0a       *)
(* request signer and the signed X API calls.                              *)
(*                                                                         *)
(* Money.  The ledger fields are Python floats.  An amount is modelled as  *)
(* an integer number of units of 2^-FracBits dollar, and every float       *)
(* addition is rounded to MantBits significant bits, ties to even, the     *)
(* way an IEEE-754 binary float rounds (a double has 53 bits; the model    *)
(* keeps the rounding and scales the width down).                          *)
(***************************************************************************)
EXTENDS Integers, Sequences, FiniteSets, TLC

\* ------------------------------------------------------------------ bounds
\* significand width of the modelled binary float
MantBits == 12
\* one unit is 2^-FracBits dollar
FracBits == 8
\* requests served in one behaviour of Spec (every endpoint)
MaxOps == 3
\* requests served in one behaviour of SpecOrders (the order endpoints)
MaxOrderOps == 4
\* research requests served in one behaviour of SpecResearch
MaxResearch == 2
\* orders the order store holds in one behaviour
MaxOrders == 2
\* distinct values uuid4().hex[:8] takes in one behaviour
NumIds == 2

\* requests served in one behaviour of SpecConc
MaxConcOps == 2
\* threads of the thread pool that serve requests at the same time
NumThreads == 2

\* requests served in one behaviour of SpecPricing
MaxPricingOps == 2
\* new-order requests among them, served first
MaxPricedOrders == 1
\* calls made in one behaviour of SpecStore
MaxStoreOps == 4
\* mentions the X API returns to one engage cycle
MaxMentions == 2

\* --------------------------------------------------------------- arithmetic
RECURSIVE Pow2(_)
Pow2(n) == IF n = 0 THEN 1 ELSE 2 * Pow2(n - 1)

Dollar == Pow2(FracBits)
HalfDollar == Dollar \div 2

\* the power of two by which a magnitude n exceeds MantBits bits
RECURSIVE Scale(_)
Scale(n) == IF n < Pow2(MantBits) THEN 1 ELSE 2 * Scale(n \div 2)

\* round a non-negative magnitude to a multiple of s, ties to even
RoundEven(n, s) ==
  LET q == n \div s
      r == n % s
  IN  IF 2 * r < s THEN q * s
      ELSE IF 2 * r > s THEN (q + 1) * s
      ELSE IF q % 2 = 0 THEN q * s ELSE (q + 1) * s

\* the float nearest to the exact value n (float rounding of a sum)
Fl(n) == IF n < 0 THEN 0 - RoundEven(0 - n, Scale(0 - n))
                  ELSE RoundEven(n, Scale(n))

\* round(x, 2): the value in cents, ties to even
Round2(x) ==
  IF x < 0 THEN 0 - RoundEven((0 - x) * 100, Dollar) \div Dollar
           ELSE RoundEven(x * 100, Dollar) \div Dollar

\* ------------------------------------------------------------------- state
VARIABLES
  initial_balance,   \* float(os.getenv("INITIAL_BALANCE", "10.0"))
  tracker,           \* the EconomicTracker singleton
  fiverr_tracker,    \* the FiverrTracker singleton
  background,        \* background tasks added and not yet run
  runs,              \* research runs started (names each report)
  event,             \* the handler that ran last and what it answered
  rounded,           \* history: some float addition so far was inexact
  neg_seen,          \* history: some amount so far was negative
  delivered_count,   \* history: per order, the deliveries credited for it
  budget_of,         \* history: per order, the budget submitted with it
  generation,        \* history: per order, what became of the background task added for it
  provider,          \* what the search provider did in the last research run
  nops,              \* requests served so far
  threads,           \* per pool thread: the request it serves and what is left of it
  observed,          \* the ledger fields the last finished status read returned
  env,               \* os.environ: the four X credentials
  xcall,             \* the X endpoint that ran last and what it did
  signed             \* the signed calls compared (at most two)

coreVars == <<initial_balance, fiverr_tracker, background, runs, event,
              rounded, neg_seen, delivered_count, budget_of, generation, provider>>
concVars == <<threads, observed>>
xVars == <<env, xcall>>
vars == <<coreVars, tracker, nops, concVars, xVars, signed>>

\* ------------------------------------------------------- EconomicTracker
EconomicTrackerInit(b) ==
  [balance |-> b, total_income |-> 0, total_costs |-> 0,
   tasks_completed |-> 0, tasks_failed |-> 0]

\* track_cost that counts a completed task
track_cost_counts_task(t, amount) ==
  [t EXCEPT !.total_costs = Fl(t.total_costs + amount),
            !.balance = Fl(t.balance - amount),
            !.tasks_completed = t.tasks_completed + 1]

\* track_cost that forgets the balance
track_cost_keeps_balance(t, amount) ==
  [t EXCEPT !.total_costs = Fl(t.total_costs + amount)]

track_cost(t, amount) ==
  [t EXCEPT !.total_costs = Fl(t.total_costs + amount),
            !.balance = Fl(t.balance - amount)]

\* track_income that does not count a completed task
track_income_uncounted(t, amount) ==
  [t EXCEPT !.total_income = Fl(t.total_income + amount),
            !.balance = Fl(t.balance + amount)]

track_income(t, amount) ==
  [t EXCEPT !.total_income = Fl(t.total_income + amount),
            !.balance = Fl(t.balance + amount),
            !.tasks_completed = t.tasks_completed + 1]

StatusOf(balance) ==
  IF balance > 50 * Dollar THEN "thriving"
  ELSE IF balance < 10 * Dollar THEN "critical"
  ELSE "surviving"

\* get_status that derives the status from the rounded balance
get_status_of_rounded(t) ==
  [balance |-> Round2(t.balance),
   total_income |-> Round2(t.total_income),
   total_costs |-> Round2(t.total_costs),
   net_profit |-> Round2(Fl(t.total_income - t.total_costs)),
   tasks_completed |-> t.tasks_completed,
   tasks_failed |-> t.tasks_failed,
   status |-> IF Round2(t.balance) > 5000 THEN "thriving"
              ELSE IF Round2(t.balance) < 1000 THEN "critical"
              ELSE "surviving"]

get_status(t) ==
  [balance |-> Round2(t.balance),
   total_income |-> Round2(t.total_income),
   total_costs |-> Round2(t.total_costs),
   net_profit |-> Round2(Fl(t.total_income - t.total_costs)),
   tasks_completed |-> t.tasks_completed,
   tasks_failed |-> t.tasks_failed,
   status |-> StatusOf(t.balance)]

\* whether the float additions of one ledger call are exact
CostExact(t, amount) ==
  /\ Fl(t.total_costs + amount) = t.total_costs + amount
  /\ Fl(t.balance - amount) = t.balance - amount

IncomeExact(t, amount) ==
  /\ Fl(t.total_income + amount) = t.total_income + amount
  /\ Fl(t.balance + amount) = t.balance + amount

\* ------------------------------------------------------------ run_research
Sections == <<"market_overview", "competitors", "trends", "swot_signals", "pricing">>

EmptySections == [s \in {} |-> 0]

Min(a, b) == IF a < b THEN a ELSE b

\* one pass of the loop body for a query: outcome -1 is the provider raising,
\* outcome n >= 0 is n results, each with body, href and title
QuerySection(section_name, outcome) ==
  IF outcome < 0
  THEN [query |-> section_name, sources |-> 0,
        source_urls |-> 0, source_titles |-> 0,
        key_findings |-> <<"Search error: e">>]
  ELSE [query |-> section_name, sources |-> outcome,
        source_urls |-> Min(outcome, 5), source_titles |-> Min(outcome, 5),
        key_findings |-> [i \in 1..Min(outcome, 5) |-> "body"]]

PutSection(sections, section_name, rec) ==
  [x \in DOMAIN sections \cup {section_name} |->
     IF x = section_name THEN rec ELSE sections[x]]

\* the loop with one try around it: the first query that raises ends it
RECURSIVE RunQueriesAbort(_, _, _)
RunQueriesAbort(i, sections, outcome) ==
  IF i > Len(Sections) THEN sections
  ELSE IF outcome[Sections[i]] < 0
  THEN PutSection(sections, Sections[i], QuerySection(Sections[i], outcome[Sections[i]]))
  ELSE RunQueriesAbort(i + 1,
         PutSection(sections, Sections[i], QuerySection(Sections[i], outcome[Sections[i]])),
         outcome)

\* the for loop over queries.items(), from the i-th query on
RECURSIVE RunQueries(_, _, _)
RunQueries(i, sections, outcome) ==
  IF i > Len(Sections) THEN sections
  ELSE RunQueries(i + 1,
         PutSection(sections, Sections[i], QuerySection(Sections[i], outcome[Sections[i]])),
         outcome)

\* run_research that credits the revenue only when no query raised
run_research_paid_on_success(t, n, ctor_ok, outcome) ==
  LET t1 == track_cost(t, HalfDollar)
      t2 == IF \E s \in DOMAIN outcome : outcome[s] < 0 THEN t1
            ELSE track_income(t1, 25 * Dollar)
  IN  IF ~ctor_ok
      THEN [raised |-> TRUE, tracker |-> t1, report |-> <<>>]
      ELSE [raised |-> FALSE, tracker |-> t2,
            report |-> <<[task_id |-> n,
                          sections |-> RunQueries(1, EmptySections, outcome),
                          economics |-> get_status(t2)]>>]

\* run_research on ledger t; n names the report (task_id); ctor_ok is whether
\* DDGS() is constructed without raising; outcome maps each section to what
\* the provider does for its query
run_research(t, n, ctor_ok, outcome) ==
  LET t1 == track_cost(t, HalfDollar)
      t2 == track_income(t1, 25 * Dollar)
  IN  IF ~ctor_ok
      THEN [raised |-> TRUE, tracker |-> t1, report |-> <<>>]
      ELSE [raised |-> FALSE, tracker |-> t2,
            report |-> <<[task_id |-> n,
                          sections |-> RunQueries(1, EmptySections, outcome),
                          economics |-> get_status(t2)]>>]

ResearchExact(t, ctor_ok) ==
  /\ CostExact(t, HalfDollar)
  /\ ctor_ok => IncomeExact(track_cost(t, HalfDollar), 25 * Dollar)

\* ------------------------------------------------------------ FiverrTracker
gigs == << [title |-> "Cybersecurity Threat Assessment Report", price |-> 50 * Dollar, category |-> "security"],
           [title |-> "Market Research & Industry Analysis", price |-> 35 * Dollar, category |-> "research"],
           [title |-> "AI Security Audit & Risk Report", price |-> 75 * Dollar, category |-> "ai_security"] >>

FiverrTrackerInit ==
  [orders |-> <<>>, deliveries_completed |-> 0, fiverr_earnings |-> 0]

\* deliverable 0 is None; deliverable n > 0 is the report of research run n
NoDeliverable == 0

\* add_order that stores the order as ready for delivery
add_order_ready(f, order_id, gig_type) ==
  [f EXCEPT !.orders = Append(f.orders,
     [order_id |-> order_id, gig_type |-> gig_type,
      status |-> "ready_for_delivery", deliverable |-> NoDeliverable])]

add_order(f, order_id, gig_type) ==
  [f EXCEPT !.orders = Append(f.orders,
     [order_id |-> order_id, gig_type |-> gig_type,
      status |-> "in_progress", deliverable |-> NoDeliverable])]

\* next((o for o in orders if o["order_id"] == order_id), None): the index
\* of the first match, 0 for None
FindOrder(orders, order_id) ==
  LET hits == {i \in 1..Len(orders) : orders[i].order_id = order_id}
  IN  IF hits = {} THEN 0 ELSE CHOOSE i \in hits : \A j \in hits : i <= j

\* generate_deliverable that stores a new order for an id it does not find
generate_deliverable_upsert(f, order_id, research_data) ==
  LET i == FindOrder(f.orders, order_id)
  IN  IF i = 0
      THEN [f EXCEPT !.orders = Append(f.orders,
              [order_id |-> order_id, gig_type |-> "security",
               status |-> "ready_for_delivery", deliverable |-> research_data])]
      ELSE [f EXCEPT !.orders[i].deliverable = research_data,
                     !.orders[i].status = "ready_for_delivery"]

\* what generate_deliverable returns: {"error": "Order not found"}, or the
\* deliverable
generate_deliverable_result(f, order_id) ==
  IF FindOrder(f.orders, order_id) = 0 THEN "not_found" ELSE "deliverable"

generate_deliverable(f, order_id, research_data) ==
  LET i == FindOrder(f.orders, order_id)
  IN  IF i = 0 THEN f
      ELSE [f EXCEPT !.orders[i].deliverable = research_data,
                     !.orders[i].status = "ready_for_delivery"]

\* mark_delivered that leaves the ledger alone
mark_delivered_uncredited(w, order_id, revenue) ==
  LET f == w.fiverr_tracker
      i == FindOrder(f.orders, order_id)
  IN  IF i = 0 THEN w
      ELSE [tracker |-> w.tracker,
            fiverr_tracker |->
              [f EXCEPT !.orders[i].status = "delivered",
                        !.deliveries_completed = f.deliveries_completed + 1,
                        !.fiverr_earnings = Fl(f.fiverr_earnings + revenue)]]

\* mark_delivered on the pair w of both singletons (it credits the ledger)
mark_delivered(w, order_id, revenue) ==
  LET f == w.fiverr_tracker
      i == FindOrder(f.orders, order_id)
  IN  IF i = 0 THEN w
      ELSE [tracker |-> track_income(w.tracker, revenue),
            fiverr_tracker |->
              [f EXCEPT !.orders[i].status = "delivered",
                        !.deliveries_completed = f.deliveries_completed + 1,
                        !.fiverr_earnings = Fl(f.fiverr_earnings + revenue)]]

\* the lookup falling back to the last catalog entry
GigForLastDefault(gig_type) ==
  LET hits == {i \in 1..Len(gigs) : gigs[i].category = gig_type}
  IN  IF hits = {} THEN gigs[Len(gigs)]
      ELSE gigs[CHOOSE i \in hits : \A j \in hits : i <= j]

\* next((g for g in gigs if g["category"] == gig_type), gigs[0])
GigFor(gig_type) ==
  LET hits == {i \in 1..Len(gigs) : gigs[i].category = gig_type}
  IN  IF hits = {} THEN gigs[1]
      ELSE gigs[CHOOSE i \in hits : \A j \in hits : i <= j]

\* ------------------------------------------- POST /fiverr/deliver/{order_id}
\* fiverr_deliver without the check of the order's status
fiverr_deliver_unchecked(w, order_id) ==
  LET orders == w.fiverr_tracker.orders
      i == FindOrder(orders, order_id)
  IN  IF i = 0 THEN [code |-> "404", world |-> w, revenue |-> 0]
      ELSE [code |-> "ok",
            world |-> mark_delivered(w, order_id, GigFor(orders[i].gig_type).price),
            revenue |-> GigFor(orders[i].gig_type).price]

\* the answer and the state after fiverr_deliver(order_id)
fiverr_deliver(w, order_id) ==
  LET orders == w.fiverr_tracker.orders
      i == FindOrder(orders, order_id)
  IN  IF i = 0 THEN [code |-> "404", world |-> w, revenue |-> 0]
      ELSE IF orders[i].status # "ready_for_delivery"
      THEN [code |-> "error", world |-> w, revenue |-> 0]
      ELSE [code |-> "ok",
            world |-> mark_delivered(w, order_id, GigFor(orders[i].gig_type).price),
            revenue |-> GigFor(orders[i].gig_type).price]

\* ------------------------------------------------------------------ inputs
OrderIds == 1..NumIds
\* gig_type of POST /fiverr/new-order: a catalog category that is not the
\* first entry, and a type the catalog does not hold
GigTypes == {"ai_security", "logo"}
\* the gig type of the orders placed among the ledger's requests: the
\* category of the first catalog entry
SomeGigTypes == {"security"}
\* every gig type: the three catalog categories and one the catalog lacks
AllGigTypes == {"security", "research", "ai_security", "logo"}
\* budget of POST /fiverr/new-order: the default 50.0
DefaultBudget == 50 * Dollar
\* budgets of POST /fiverr/new-order: the default, and 5.0
BudgetInputs == {DefaultBudget, 5 * Dollar}
\* estimated_cost of POST /task/start: one unit, and a negative amount
CostInputs == {1, 0 - HalfDollar}
\* actual_revenue of POST /task/complete
RevenueInputs == {40 * Dollar, 0 - HalfDollar}
\* what the search provider does for one query: raise (-1), return nothing,
\* or return max_results results
QueryOutcomes == {-1, 0, 8}
SectionNames == {Sections[i] : i \in 1..Len(Sections)}
\* every way the five queries can go
AllOutcomes == [SectionNames -> QueryOutcomes]
\* the third query raising, the others answered
SomeOutcomes == {[s \in SectionNames |-> IF s = "trends" THEN -1 ELSE 8]}

\* ------------------------------------------------------------- oauth_sign
\* A string is a sequence of symbols: a reserved character, or a run of
\* unreserved characters (letters, digits, - . _ ~) that holds no other
\* symbol of the model as a part.
Reserved == {"&", "=", "%", ":", "/", ",", " "}

\* the two hex digits of a reserved character
PctCode(c) ==
  CASE c = "&" -> <<"%", "2", "6">>
    [] c = "=" -> <<"%", "3", "D">>
    [] c = "%" -> <<"%", "2", "5">>
    [] c = ":" -> <<"%", "3", "A">>
    [] c = "/" -> <<"%", "2", "F">>
    [] c = "," -> <<"%", "2", "C">>
    [] c = " " -> <<"%", "2", "0">>

\* urllib.parse.quote(s, safe='')
RECURSIVE quote(_)
quote(s) ==
  IF s = <<>> THEN <<>>
  ELSE (IF Head(s) \in Reserved THEN PctCode(Head(s)) ELSE <<Head(s)>>) \o quote(Tail(s))

\* every parameter key of the program's calls, in the order sorted() gives
KeyOrder == << "max_results", "oauth_consumer_key", "oauth_nonce",
               "oauth_signature_method", "oauth_timestamp", "oauth_token",
               "oauth_version", "tweet.fields" >>

\* the keys of params in descending order
SortedKeysDescending(params) ==
  LET up == SelectSeq(KeyOrder, LAMBDA k : k \in DOMAIN params)
  IN  [i \in 1..Len(up) |-> up[Len(up) + 1 - i]]

\* sorted(params.items()): the keys of params in ascending order
SortedKeys(params) ==
  SelectSeq(KeyOrder, LAMBDA k : k \in DOMAIN params)

\* "&".join(f"{k}={quote(str(v))}" for k, v in sorted_params), from the i-th on
RECURSIVE JoinParams(_, _, _)
JoinParams(keys, params, i) ==
  IF i > Len(keys) THEN <<>>
  ELSE (IF i > 1 THEN <<"&">> ELSE <<>>)
         \o <<keys[i], "=">> \o quote(params[keys[i]])
         \o JoinParams(keys, params, i + 1)

\* method.upper()
Upper(method) ==
  CASE method = "post" -> "POST"
    [] method = "get" -> "GET"
    [] OTHER -> method

\* base64(HMAC-SHA1(key, msg)): the digest is taken to tell apart any two
\* different (key, msg) pairs
HmacSha1(key, msg) == [key |-> key, msg |-> msg]

oauth_sign(method, url, params, consumer_secret, token_secret) ==
  LET param_str == JoinParams(SortedKeys(params), params, 1)
      base_str == <<Upper(method), "&">> \o quote(url) \o <<"&">> \o quote(param_str)
      signing_key == quote(consumer_secret) \o <<"&">> \o quote(token_secret)
  IN  HmacSha1(signing_key, base_str)

\* ------------------------------------------------------ build_oauth_header
CredentialNames == {"X_CONSUMER_KEY", "X_CONSUMER_SECRET",
                    "X_ACCESS_TOKEN", "X_ACCESS_TOKEN_SECRET"}
\* os.getenv(name, ""): unset, or a value (one with a reserved character)
CredentialValues == {<<>>, <<"k", "&", "1">>}

\* a check that passes as soon as the consumer key is set
CredentialsMissingKeyOnly(e) == e["X_CONSUMER_KEY"] = <<>>

\* not all([ck, cs, at, ats])
CredentialsMissing(e) == \E n \in CredentialNames : e[n] = <<>>

NoExtra == [k \in {} |-> <<>>]

\* {**a} updated with b
Updated(a, b) ==
  [k \in DOMAIN a \cup DOMAIN b |-> IF k \in DOMAIN b THEN b[k] ELSE a[k]]

OAuthParams(e, nonce, timestamp) ==
  [k \in {"oauth_consumer_key", "oauth_nonce", "oauth_signature_method",
          "oauth_timestamp", "oauth_token", "oauth_version"} |->
     CASE k = "oauth_consumer_key" -> e["X_CONSUMER_KEY"]
       [] k = "oauth_nonce" -> nonce
       [] k = "oauth_signature_method" -> <<"HMAC-SHA1">>
       [] k = "oauth_timestamp" -> timestamp
       [] k = "oauth_token" -> e["X_ACCESS_TOKEN"]
       [] k = "oauth_version" -> <<"1.0">>]

NoHeader == [oauth |-> NoExtra, oauth_signature |-> HmacSha1(<<>>, <<>>)]

\* build_oauth_header that signs the protocol parameters only
build_oauth_header_unsigned_extra(e, nonce, timestamp, method, url, extra_params) ==
  IF CredentialsMissing(e)
  THEN [header |-> NoHeader, err |-> "X API credentials not configured"]
  ELSE LET oauth_params == OAuthParams(e, nonce, timestamp)
       IN  [header |->
              [oauth |-> [k \in DOMAIN oauth_params |-> quote(oauth_params[k])],
               oauth_signature |->
                 oauth_sign(method, url, oauth_params,
                            e["X_CONSUMER_SECRET"], e["X_ACCESS_TOKEN_SECRET"])],
            err |-> ""]

\* build_oauth_header(method, url, extra_params) under environment e, with
\* uuid4().hex as nonce and str(int(time.time())) as timestamp; header
\* NoHeader stands for None, err "" for None
build_oauth_header(e, nonce, timestamp, method, url, extra_params) ==
  IF CredentialsMissing(e)
  THEN [header |-> NoHeader, err |-> "X API credentials not configured"]
  ELSE LET oauth_params == OAuthParams(e, nonce, timestamp)
           all_params == Updated(oauth_params, extra_params)
       IN  [header |->
              [oauth |-> [k \in DOMAIN oauth_params |-> quote(oauth_params[k])],
               oauth_signature |->
                 oauth_sign(method, url, all_params,
                            e["X_CONSUMER_SECRET"], e["X_ACCESS_TOKEN_SECRET"])],
            err |-> ""]

\* ------------------------------------------------------------ X endpoints
USER_ID == "15471332"
TweetsUrl == <<"https", ":", "/", "/", "api.x.com", "/", "2", "/", "tweets">>
UserUrl(leaf) ==
  <<"https", ":", "/", "/", "api.x.com", "/", "2", "/", "users", "/", USER_ID, "/", leaf>>

\* an outbound HTTP call: body is the JSON payload, query the query string
Request(method, url, auth, body, query) ==
  [method |-> method, url |-> url, auth |-> auth, body |-> body, query |-> query]

\* no answer from the X API: no call was made, or the client raised
NoResponse == 0

\* what an endpoint did: its answer to the caller (outcome) with the X
\* API's status in it, the outbound calls it made (sent), the signed
\* calls it left out without telling
\* (skipped), and the counts of the engagement results
Answer(op, outcome, status, sent, skipped, likes, replies, errors) ==
  [op |-> op, outcome |-> outcome, status |-> status, sent |-> sent, skipped |-> skipped,
   likes |-> likes, replies |-> replies, errors |-> errors]

\* the header post_tweet, get_tweet and scheduled_post build in line
tweet_header(e, nonce, timestamp) ==
  LET oauth_params == OAuthParams(e, nonce, timestamp)
  IN  [oauth |-> [k \in DOMAIN oauth_params |-> quote(oauth_params[k])],
       oauth_signature |->
         oauth_sign("POST", TweetsUrl, oauth_params,
                    e["X_CONSUMER_SECRET"], e["X_ACCESS_TOKEN_SECRET"])]

\* POST /tweet with body text; status is the X API's answer
post_tweet(e, nonce, timestamp, text, status) ==
  IF CredentialsMissing(e)
  THEN Answer("post_tweet", "http_500", NoResponse, <<>>, 0, 0, 0, 0)
  ELSE Answer("post_tweet", "forwarded", status,
              <<Request("POST", TweetsUrl, tweet_header(e, nonce, timestamp),
                        [text |-> text], NoExtra)>>, 0, 0, 0, 0)

\* GET /tweet?text=...
get_tweet(e, nonce, timestamp, text, status) ==
  IF CredentialsMissing(e)
  THEN Answer("get_tweet", "http_500", NoResponse, <<>>, 0, 0, 0, 0)
  ELSE Answer("get_tweet", "forwarded", status,
              <<Request("POST", TweetsUrl, tweet_header(e, nonce, timestamp),
                        [text |-> text], NoExtra)>>, 0, 0, 0, 0)

\* GET /scheduled-post; tweet_text is the template drawn
scheduled_post(e, nonce, timestamp, tweet_text, status) ==
  IF CredentialsMissing(e)
  THEN Answer("scheduled_post", "error_returned", NoResponse, <<>>, 0, 0, 0, 0)
  ELSE Answer("scheduled_post", "forwarded", status,
              <<Request("POST", TweetsUrl, tweet_header(e, nonce, timestamp),
                        [text |-> tweet_text], NoExtra)>>, 0, 0, 0, 0)

\* POST /reply
reply_to_tweet(e, nonce, timestamp, tweet_id, text, status) ==
  LET built == build_oauth_header(e, nonce, timestamp, "POST", TweetsUrl, NoExtra)
  IN  IF built.err # ""
      THEN Answer("reply_to_tweet", "http_500", NoResponse, <<>>, 0, 0, 0, 0)
      ELSE Answer("reply_to_tweet", "forwarded", status,
                  <<Request("POST", TweetsUrl, built.header,
                            [text |-> text, in_reply_to_tweet_id |-> tweet_id],
                            NoExtra)>>, 0, 0, 0, 0)

\* POST /like
like_tweet(e, nonce, timestamp, tweet_id, status) ==
  LET api_url == UserUrl("likes")
      built == build_oauth_header(e, nonce, timestamp, "POST", api_url, NoExtra)
  IN  IF built.err # ""
      THEN Answer("like_tweet", "http_500", NoResponse, <<>>, 0, 0, 0, 0)
      ELSE Answer("like_tweet", "forwarded", status,
                  <<Request("POST", api_url, built.header,
                            [tweet_id |-> tweet_id], NoExtra)>>, 0, 0, 0, 0)

\* POST /retweet
retweet(e, nonce, timestamp, tweet_id, status) ==
  LET api_url == UserUrl("retweets")
      built == build_oauth_header(e, nonce, timestamp, "POST", api_url, NoExtra)
  IN  IF built.err # ""
      THEN Answer("retweet", "http_500", NoResponse, <<>>, 0, 0, 0, 0)
      ELSE Answer("retweet", "forwarded", status,
                  <<Request("POST", api_url, built.header,
                            [tweet_id |-> tweet_id], NoExtra)>>, 0, 0, 0, 0)

\* str(n) for the numbers the model hands to str
Str(n) ==
  CASE n = 1 -> <<"1">>
    [] n = 2 -> <<"2">>
    [] n = 3 -> <<"3">>
    [] n = 4 -> <<"4">>
    [] n = 5 -> <<"5">>
    [] n = 10 -> <<"10">>
    [] n = 100 -> <<"100">>

\* GET /mentions?max_results=...
get_mentions(e, nonce, timestamp, max_results, status) ==
  LET api_url == UserUrl("mentions")
      params == [k \in {"max_results", "tweet.fields"} |->
                   IF k = "max_results" THEN Str(Min(max_results, 100))
                   ELSE <<"created_at", ",", "author_id", ",", "conversation_id">>]
      built == build_oauth_header(e, nonce, timestamp, "GET", api_url, params)
  IN  IF built.err # ""
      THEN Answer("get_mentions", "http_500", NoResponse, <<>>, 0, 0, 0, 0)
      ELSE Answer("get_mentions", "forwarded", status,
                  <<Request("GET", api_url, built.header, NoExtra,
                            [k \in DOMAIN params |-> quote(params[k])])>>,
                  0, 0, 0, 0)

\* the like of one mention inside the engage cycle; out is the X API's
\* status, NoResponse when the client raised
LikeStep(e, stamp, tweet_id, out, acc) ==
  LET like_url == UserUrl("likes")
      built == build_oauth_header(e, stamp.nonce, stamp.timestamp, "POST", like_url, NoExtra)
  IN  IF built.header = NoHeader
      THEN [acc EXCEPT !.skipped = @ + 1]
      ELSE LET called == [acc EXCEPT !.sent =
                            Append(@, Request("POST", like_url, built.header,
                                              [tweet_id |-> tweet_id], NoExtra))]
           IN  IF out = NoResponse THEN [called EXCEPT !.errors = @ + 1]
               ELSE IF out \in {200, 201} THEN [called EXCEPT !.likes = @ + 1]
               ELSE called

\* the reply to one mention inside the engage cycle
ReplyStep(e, stamp, tweet_id, reply_text, out, acc) ==
  LET built == build_oauth_header(e, stamp.nonce, stamp.timestamp, "POST", TweetsUrl, NoExtra)
  IN  IF built.header = NoHeader
      THEN [acc EXCEPT !.skipped = @ + 1]
      ELSE LET called == [acc EXCEPT !.sent =
                            Append(@, Request("POST", TweetsUrl, built.header,
                                              [text |-> reply_text,
                                               in_reply_to_tweet_id |-> tweet_id],
                                              NoExtra))]
           IN  IF out = NoResponse THEN [called EXCEPT !.errors = @ + 1]
               ELSE IF out \in {200, 201} THEN [called EXCEPT !.replies = @ + 1]
               ELSE called

\* for mention in mentions[:3], from the i-th of m on
RECURSIVE EngageLoop(_, _, _, _, _, _)
EngageLoop(e, stamps, outs, i, m, acc) ==
  IF i > m THEN acc
  ELSE LET liked == LikeStep(e, stamps[2 * i], Str(i), outs[i].like, acc)
           replied == ReplyStep(e, stamps[2 * i + 1], Str(i), <<"Well", " ", "said">>,
                                outs[i].reply, liked)
       IN  EngageLoop(e, stamps, outs, i + 1, m, replied)

\* GET /engage-cycle: the X API answers the fetch with status and n
\* mentions, and the like and the reply of the i-th mention with outs[i]
engage_cycle(e, stamps, status, n, outs) ==
  LET api_url == UserUrl("mentions")
      params == [k \in {"max_results", "tweet.fields"} |->
                   IF k = "max_results" THEN <<"5">>
                   ELSE <<"created_at", ",", "author_id", ",", "text">>]
      built == build_oauth_header(e, stamps[1].nonce, stamps[1].timestamp,
                                  "GET", api_url, params)
      fetch == Request("GET", api_url, built.header, NoExtra,
                       [k \in DOMAIN params |-> quote(params[k])])
  IN  IF built.err # ""
      THEN Answer("engage_cycle", "error_returned", NoResponse, <<>>, 0, 0, 0, 0)
      ELSE IF status # 200
      THEN Answer("engage_cycle", "results", status, <<fetch>>, 0, 0, 0, 1)
      ELSE EngageLoop(e, stamps, outs, 1, Min(n, 3),
                      Answer("engage_cycle", "results", status, <<fetch>>, 0, 0, 0, 0))

\* ------------------------------------------------------------ thread pool
\* FastAPI runs the def endpoints (get_status, start_task, complete_task,
\* do_research) on pool threads.  A thread's request is a list of steps:
\* x += a is a load of x and a store of the sum (no lock is held between
\* them), get_status reads the fields one after the other, and the queries
\* of a research run sleep.
Threads == 1..NumThreads

Idle == [op |-> "idle", todo |-> <<>>, tmp |-> 0,
         snap |-> [balance |-> 0, total_income |-> 0, total_costs |-> 0]]

Load(field) == [kind |-> "load", field |-> field, amount |-> 0]
Store(field, amount) == [kind |-> "store", field |-> field, amount |-> amount]
Read(field) == [kind |-> "read", field |-> field, amount |-> 0]

TrackCostCode(amount) ==
  << Load("total_costs"), Store("total_costs", amount),
     Load("balance"), Store("balance", 0 - amount) >>

TrackIncomeCode(amount) ==
  << Load("total_income"), Store("total_income", amount),
     Load("balance"), Store("balance", amount),
     Load("tasks_completed"), Store("tasks_completed", 1) >>

GetStatusCode ==
  << Read("balance"), Read("total_income"), Read("total_costs"),
     [kind |-> "publish", field |-> "", amount |-> 0] >>

QueriesCode == << [kind |-> "queries", field |-> "", amount |-> 0] >>

ReturnCode == << [kind |-> "return", field |-> "", amount |-> 0] >>

World == [tracker |-> tracker, fiverr_tracker |-> fiverr_tracker]

\* op: the handler; code: its answer; id: the order id it was given; amount:
\* the amount it tracked on the ledger when that is an input or a price;
\* report: the report it returned, if any
Event(op, code, id, amount, report) ==
  [op |-> op, code |-> code, id |-> id, amount |-> amount, report |-> report]

\* -------------------------------------------------------------------- Init
Started ==
  /\ initial_balance = 10 * Dollar
  /\ tracker = EconomicTrackerInit(initial_balance)
  /\ fiverr_tracker = FiverrTrackerInit
  /\ background = <<>>
  /\ runs = 0
  /\ event = Event("start", "ok", 0, 0, <<>>)
  /\ rounded = FALSE
  /\ neg_seen = FALSE
  /\ delivered_count = <<>>
  /\ budget_of = <<>>
  /\ generation = <<>>
  /\ provider = [s \in SectionNames |-> 0]
  /\ nops = 0
  /\ threads = [t \in Threads |-> Idle]
  /\ observed = [balance |-> initial_balance, total_income |-> 0, total_costs |-> 0]
  /\ xcall = Answer("none", "none", NoResponse, <<>>, 0, 0, 0, 0)
  /\ signed = <<>>

\* the process started with the four credentials set
Init == Started /\ env = [n \in CredentialNames |-> <<"k", "&", "1">>]

\* the process started under any environment
InitX == Started /\ env \in [CredentialNames -> CredentialValues]

\* ----------------------------------------------------------------- actions
\* GET /status
GetStatus ==
  /\ nops < MaxOps
  /\ nops' = nops + 1
  /\ event' = Event("status", "ok", 0, 0, <<>>)
  /\ UNCHANGED <<initial_balance, tracker, fiverr_tracker, background, runs,
                 rounded, neg_seen, delivered_count, budget_of, generation, provider>>

\* POST /task/start
StartTask ==
  \E estimated_cost \in CostInputs :
    /\ nops < MaxOps
    /\ nops' = nops + 1
    /\ tracker' = IF estimated_cost # 0 THEN track_cost(tracker, estimated_cost)
                                        ELSE tracker
    /\ rounded' = (rounded \/ (estimated_cost # 0 /\ ~CostExact(tracker, estimated_cost)))
    /\ neg_seen' = (neg_seen \/ estimated_cost < 0)
    /\ event' = Event("start_task", "started", 0, estimated_cost, <<>>)
    /\ UNCHANGED <<initial_balance, fiverr_tracker, background, runs,
                   delivered_count, budget_of, generation, provider>>

\* POST /task/complete
CompleteTask ==
  \E success \in BOOLEAN, actual_revenue \in RevenueInputs :
    /\ nops < MaxOps
    /\ nops' = nops + 1
    /\ tracker' = IF success THEN track_income(tracker, actual_revenue)
                  ELSE [tracker EXCEPT !.tasks_failed = tracker.tasks_failed + 1]
    /\ rounded' = (rounded \/ (success /\ ~IncomeExact(tracker, actual_revenue)))
    /\ neg_seen' = (neg_seen \/ (success /\ actual_revenue < 0))
    /\ event' = Event("complete_task", IF success THEN "completed" ELSE "failed",
                      0, IF success THEN actual_revenue ELSE 0, <<>>)
    /\ UNCHANGED <<initial_balance, fiverr_tracker, background, runs,
                   delivered_count, budget_of, generation, provider>>

\* POST /research, at most limit requests, the provider behaving in one of
\* the ways of Outcomes
do_research(limit, Outcomes) ==
  \E ctor_ok \in BOOLEAN, outcome \in Outcomes :
    LET res == run_research(tracker, runs + 1, ctor_ok, outcome)
    IN  /\ nops < limit
        /\ nops' = nops + 1
        /\ runs' = runs + 1
        /\ tracker' = res.tracker
        /\ rounded' = (rounded \/ ~ResearchExact(tracker, ctor_ok))
        /\ event' = Event("research", IF res.raised THEN "500" ELSE "ok", 0, 0, res.report)
        /\ provider' = IF ctor_ok THEN outcome ELSE provider
        /\ UNCHANGED <<initial_balance, fiverr_tracker, background, neg_seen,
                       delivered_count, budget_of, generation>>

DoResearch == do_research(MaxOps, SomeOutcomes)

\* POST /fiverr/new-order, at most limit requests, for a gig type of Types
\* and a budget of Budgets
fiverr_new_order(limit, Types, Budgets) ==
  \E order_id \in OrderIds, gig_type \in Types, budget \in Budgets :
    /\ nops < limit
    /\ Len(fiverr_tracker.orders) < MaxOrders
    /\ nops' = nops + 1
    /\ fiverr_tracker' = add_order(fiverr_tracker, order_id, gig_type)
    /\ background' = Append(background, [order_id |-> order_id, gig_type |-> gig_type])
    /\ event' = Event("new_order", "ok", order_id, 0,
                      <<add_order(fiverr_tracker, order_id, gig_type).orders[
                          Len(fiverr_tracker.orders) + 1]>>)
    /\ delivered_count' = Append(delivered_count, 0)
    /\ budget_of' = Append(budget_of, budget)
    /\ generation' = Append(generation, "pending")
    /\ UNCHANGED <<initial_balance, tracker, runs, rounded, neg_seen, provider>>

NewOrder == fiverr_new_order(MaxOps, SomeGigTypes, {DefaultBudget})

\* the position of the order the k-th waiting background task was added for:
\* tasks wait in the order they were added, one per order placed
TaskOrder(k) ==
  CHOOSE i \in 1..Len(generation) :
    /\ generation[i] = "pending"
    /\ Cardinality({j \in 1..i : generation[j] = "pending"}) = k

\* the background task auto_generate_fiverr_deliverable, run for one of the
\* tasks added and not yet run
AutoGenerate ==
  \E k \in 1..Len(background), ctor_ok \in BOOLEAN, outcome \in SomeOutcomes :
    LET task == background[k]
        res == run_research(tracker, runs + 1, ctor_ok, outcome)
    IN  /\ background' = [j \in 1..(Len(background) - 1) |->
                            IF j < k THEN background[j] ELSE background[j + 1]]
        /\ runs' = runs + 1
        /\ tracker' = res.tracker
        /\ rounded' = (rounded \/ ~ResearchExact(tracker, ctor_ok))
        /\ fiverr_tracker' = IF res.raised THEN fiverr_tracker
                             ELSE generate_deliverable(fiverr_tracker, task.order_id, runs + 1)
        /\ event' = Event("auto_generate", IF res.raised THEN "printed" ELSE "ok",
                          task.order_id, 0, <<>>)
        /\ provider' = IF ctor_ok THEN outcome ELSE provider
        /\ generation' = [generation EXCEPT ![TaskOrder(k)] =
                             IF res.raised THEN "raised" ELSE "done"]
        /\ UNCHANGED <<initial_balance, neg_seen, delivered_count, budget_of, nops>>

\* POST /fiverr/deliver/{order_id}, at most limit requests
deliver(limit) ==
  \E order_id \in OrderIds :
    LET res == fiverr_deliver(World, order_id)
    IN  /\ nops < limit
        /\ nops' = nops + 1
        /\ tracker' = res.world.tracker
        /\ fiverr_tracker' = res.world.fiverr_tracker
        /\ rounded' = (rounded \/ (res.code = "ok" /\ ~IncomeExact(tracker, res.revenue)))
        /\ event' = Event("deliver", res.code, order_id, res.revenue, <<>>)
        /\ delivered_count' =
             IF res.code = "ok"
             THEN [delivered_count EXCEPT ![FindOrder(fiverr_tracker.orders, order_id)] = @ + 1]
             ELSE delivered_count
        /\ UNCHANGED <<initial_balance, background, runs, neg_seen, budget_of,
                       generation, provider>>

Deliver == deliver(MaxOps)

\* every endpoint of the ledger and of the order lifecycle
Next ==
  /\ UNCHANGED <<concVars, xVars, signed>>
  /\ \/ GetStatus
     \/ StartTask
     \/ CompleteTask
     \/ DoResearch
     \/ NewOrder
     \/ AutoGenerate
     \/ Deliver

Spec == Init /\ [][Next]_vars

\* the order endpoints alone: new-order, background generation, deliver
OrderPlaced == fiverr_new_order(MaxOrderOps, GigTypes, {DefaultBudget})
OrderDelivered == deliver(MaxOrderOps)

NextOrders ==
  /\ UNCHANGED <<concVars, xVars, signed>>
  /\ \/ OrderPlaced
     \/ AutoGenerate
     \/ OrderDelivered

SpecOrders == Init /\ [][NextOrders]_vars

\* the order endpoints with every background task added eventually run
\* (BackgroundTasks runs a request's tasks once its response is sent)
BackgroundRun == AutoGenerate /\ UNCHANGED <<concVars, xVars, signed>>

SpecOrdersFair == SpecOrders /\ WF_vars(BackgroundRun)

\* orders of every gig type and budget, generated and delivered
PricedOrderPlaced == fiverr_new_order(MaxPricedOrders, AllGigTypes, BudgetInputs)
PricedOrderDelivered == deliver(MaxPricingOps)

NextPricing ==
  /\ UNCHANGED <<concVars, xVars, signed>>
  /\ \/ PricedOrderPlaced
     \/ AutoGenerate
     \/ PricedOrderDelivered

SpecPricing == Init /\ [][NextPricing]_vars

\* the order store called directly: add_order and generate_deliverable with
\* any id, and deliver requests
AddOrderCall ==
  \E order_id \in OrderIds, gig_type \in SomeGigTypes :
    /\ nops < MaxStoreOps
    /\ Len(fiverr_tracker.orders) < MaxOrders
    /\ nops' = nops + 1
    /\ fiverr_tracker' = add_order(fiverr_tracker, order_id, gig_type)
    /\ event' = Event("add_order", "ok", order_id, 0, <<>>)
    /\ delivered_count' = Append(delivered_count, 0)
    /\ budget_of' = Append(budget_of, DefaultBudget)
    /\ generation' = Append(generation, "none")
    /\ UNCHANGED <<initial_balance, tracker, background, runs, rounded, neg_seen,
                   provider>>

GenerateCall ==
  \E order_id \in OrderIds, research_data \in 1..2 :
    /\ nops < MaxStoreOps
    /\ nops' = nops + 1
    /\ fiverr_tracker' = generate_deliverable(fiverr_tracker, order_id, research_data)
    /\ event' = Event("generate_deliverable",
                      generate_deliverable_result(fiverr_tracker, order_id),
                      order_id, 0, <<>>)
    /\ UNCHANGED <<initial_balance, tracker, background, runs, rounded, neg_seen,
                   delivered_count, budget_of, generation, provider>>

DeliverCall == deliver(MaxStoreOps)

NextStore ==
  /\ UNCHANGED <<concVars, xVars, signed>>
  /\ \/ AddOrderCall
     \/ GenerateCall
     \/ DeliverCall

SpecStore == Init /\ [][NextStore]_vars

\* research requests alone, over every way the five queries can go
ResearchRequested == do_research(MaxResearch, AllOutcomes)

NextResearch == ResearchRequested /\ UNCHANGED <<concVars, xVars, signed>>

SpecResearch == Init /\ [][NextResearch]_vars

\* ------------------------------------------------- requests on pool threads
\* a pool thread takes a request
Begin(t, op, code) ==
  /\ threads[t].op = "idle"
  /\ nops < MaxConcOps
  /\ nops' = nops + 1
  /\ threads' = [threads EXCEPT ![t] = [Idle EXCEPT !.op = op, !.todo = code]]
  /\ UNCHANGED <<coreVars, tracker, observed, xVars, signed>>

\* GET /status
BeginStatus == \E t \in Threads : Begin(t, "status", GetStatusCode)

\* POST /task/start with estimated_cost 0.50
BeginStartTask ==
  \E t \in Threads : Begin(t, "start_task", TrackCostCode(HalfDollar) \o ReturnCode)

\* POST /task/complete with success and actual_revenue 25.00
BeginCompleteTask ==
  \E t \in Threads :
    Begin(t, "complete_task", TrackIncomeCode(25 * Dollar) \o GetStatusCode)

\* POST /research
BeginResearch ==
  \E t \in Threads :
    Begin(t, "research",
          TrackCostCode(HalfDollar) \o QueriesCode \o TrackIncomeCode(25 * Dollar)
            \o GetStatusCode)

Running(t, kind) ==
  /\ threads[t].todo # <<>>
  /\ Head(threads[t].todo).kind = kind

Advance(t, th) == threads' = [threads EXCEPT ![t] = [th EXCEPT !.todo = Tail(@)]]

\* the read half of x += a
LoadStep ==
  \E t \in Threads :
    /\ Running(t, "load")
    /\ Advance(t, [threads[t] EXCEPT !.tmp = tracker[Head(threads[t].todo).field]])
    /\ UNCHANGED <<coreVars, tracker, nops, observed, xVars, signed>>

\* the write half of x += a
StoreStep ==
  \E t \in Threads :
    /\ Running(t, "store")
    /\ LET step == Head(threads[t].todo)
       IN  tracker' = [tracker EXCEPT ![step.field] =
                         IF step.field = "tasks_completed"
                         THEN threads[t].tmp + step.amount
                         ELSE Fl(threads[t].tmp + step.amount)]
    /\ Advance(t, threads[t])
    /\ UNCHANGED <<coreVars, nops, observed, xVars, signed>>

\* get_status reads one field
ReadStep ==
  \E t \in Threads :
    /\ Running(t, "read")
    /\ LET field == Head(threads[t].todo).field
       IN  Advance(t, [threads[t] EXCEPT !.snap[field] = tracker[field]])
    /\ UNCHANGED <<coreVars, tracker, nops, observed, xVars, signed>>

\* the five queries of a research run, each followed by time.sleep(2)
QueriesStep ==
  \E t \in Threads :
    /\ Running(t, "queries")
    /\ Advance(t, threads[t])
    /\ UNCHANGED <<coreVars, tracker, nops, observed, xVars, signed>>

\* the request answers with the status it read
PublishStep ==
  \E t \in Threads :
    /\ Running(t, "publish")
    /\ observed' = threads[t].snap
    /\ threads' = [threads EXCEPT ![t] = Idle]
    /\ UNCHANGED <<coreVars, tracker, nops, xVars, signed>>

\* the request answers without a status
ReturnStep ==
  \E t \in Threads :
    /\ Running(t, "return")
    /\ threads' = [threads EXCEPT ![t] = Idle]
    /\ UNCHANGED <<coreVars, tracker, nops, observed, xVars, signed>>

NextConc ==
  \/ BeginStatus
  \/ BeginStartTask
  \/ BeginCompleteTask
  \/ BeginResearch
  \/ LoadStep
  \/ StoreStep
  \/ ReadStep
  \/ QueriesStep
  \/ PublishStep
  \/ ReturnStep

SpecConc == Init /\ [][NextConc]_vars

\* ================================================================== claims
\* ---------------------------------------------------- requests to X routes
Nonces == {<<"n1">>, <<"n2">>}
Timestamps == {<<"1700000000">>, <<"1700000001">>}
Texts == {<<"hi">>, <<"hi", " ", "&", "bye">>}
TweetIds == {<<"1">>, <<"2">>}
MaxResultsInputs == {10, 150}
Statuses == {200, 403}
\* what the X API does with the like and the reply of one mention: a
\* status, or NoResponse when the client raised
InnerOutcomes ==
  {[like |-> 201, reply |-> 403],
   [like |-> 403, reply |-> NoResponse],
   [like |-> NoResponse, reply |-> 201]}

\* uuid4().hex and str(int(time.time())) of one build of a header
Stamps == {[nonce |-> <<"n1">>, timestamp |-> <<"1700000000">>],
           [nonce |-> <<"n2">>, timestamp |-> <<"1700000001">>]}

\* the stamps of the headers one engage cycle builds
StampSeqs ==
  LET first == CHOOSE st \in Stamps : st.nonce = <<"n1">>
      other == CHOOSE st \in Stamps : st.nonce = <<"n2">>
  IN  {[i \in 1..(2 * MaxMentions + 1) |-> first],
       [i \in 1..(2 * MaxMentions + 1) |-> IF i % 2 = 1 THEN first ELSE other]}

Rest == <<coreVars, tracker, nops, concVars, env, signed>>

PostTweet ==
  /\ \E st \in Stamps, text \in Texts, status \in Statuses :
       xcall' = post_tweet(env, st.nonce, st.timestamp, text, status)
  /\ UNCHANGED Rest

GetTweet ==
  /\ \E st \in Stamps, text \in Texts, status \in Statuses :
       xcall' = get_tweet(env, st.nonce, st.timestamp, text, status)
  /\ UNCHANGED Rest

ScheduledPost ==
  /\ \E st \in Stamps, text \in Texts, status \in Statuses :
       xcall' = scheduled_post(env, st.nonce, st.timestamp, text, status)
  /\ UNCHANGED Rest

Reply ==
  /\ \E st \in Stamps, tweet_id \in TweetIds, text \in Texts, status \in Statuses :
       xcall' = reply_to_tweet(env, st.nonce, st.timestamp, tweet_id, text, status)
  /\ UNCHANGED Rest

Like ==
  /\ \E st \in Stamps, tweet_id \in TweetIds, status \in Statuses :
       xcall' = like_tweet(env, st.nonce, st.timestamp, tweet_id, status)
  /\ UNCHANGED Rest

Retweet ==
  /\ \E st \in Stamps, tweet_id \in TweetIds, status \in Statuses :
       xcall' = retweet(env, st.nonce, st.timestamp, tweet_id, status)
  /\ UNCHANGED Rest

Mentions ==
  /\ \E st \in Stamps, max_results \in MaxResultsInputs, status \in Statuses :
       xcall' = get_mentions(env, st.nonce, st.timestamp, max_results, status)
  /\ UNCHANGED Rest

EngageCycle ==
  /\ \E stamps \in StampSeqs, status \in Statuses, n \in 0..MaxMentions :
       \E outs \in [1..Min(n, 3) -> InnerOutcomes] :
         xcall' = engage_cycle(env, stamps, status, n, outs)
  /\ UNCHANGED Rest

NextX ==
  \/ PostTweet
  \/ GetTweet
  \/ ScheduledPost
  \/ Reply
  \/ Like
  \/ Retweet
  \/ Mentions
  \/ EngageCycle

SpecX == InitX /\ [][NextX]_vars

\* ------------------------------------------------- the signer on two calls
SignedOps == {"post_tweet", "scheduled_post", "reply_to_tweet", "like_tweet",
              "retweet", "get_mentions"}
SetCredentialValues == {<<"k", "&", "1">>, <<"k", "=", "2">>}

\* the inputs of one signed call
SignInputs ==
  [op : SignedOps, e : [CredentialNames -> SetCredentialValues],
   nonce : Nonces, timestamp : Timestamps, tweet_id : TweetIds, text : Texts,
   max_results : MaxResultsInputs]

\* the call the endpoint inp.op sends on these inputs
SignedCall(inp) ==
  LET answer ==
        CASE inp.op = "post_tweet" ->
               post_tweet(inp.e, inp.nonce, inp.timestamp, inp.text, 200)
          [] inp.op = "scheduled_post" ->
               scheduled_post(inp.e, inp.nonce, inp.timestamp, inp.text, 200)
          [] inp.op = "reply_to_tweet" ->
               reply_to_tweet(inp.e, inp.nonce, inp.timestamp, inp.tweet_id, inp.text, 200)
          [] inp.op = "like_tweet" ->
               like_tweet(inp.e, inp.nonce, inp.timestamp, inp.tweet_id, 200)
          [] inp.op = "retweet" ->
               retweet(inp.e, inp.nonce, inp.timestamp, inp.tweet_id, 200)
          [] inp.op = "get_mentions" ->
               get_mentions(inp.e, inp.nonce, inp.timestamp, inp.max_results, 200)
  IN  [input |-> inp, request |-> answer.sent[1]]

Other(v, S) == CHOOSE w \in S : w # v

\* the inputs inp with the one input named c changed
Changed(inp, c) ==
  CASE c = "none" -> inp
    [] c \in CredentialNames ->
         [inp EXCEPT !.e[c] = Other(@, SetCredentialValues)]
    [] c = "nonce" -> [inp EXCEPT !.nonce = Other(@, Nonces)]
    [] c = "timestamp" -> [inp EXCEPT !.timestamp = Other(@, Timestamps)]
    [] c = "tweet_id" -> [inp EXCEPT !.tweet_id = Other(@, TweetIds)]
    [] c = "text" -> [inp EXCEPT !.text = Other(@, Texts)]
    [] c = "max_results" -> [inp EXCEPT !.max_results = Other(@, MaxResultsInputs)]

Changes == {"none", "nonce", "timestamp", "tweet_id", "text", "max_results"}
             \cup CredentialNames

Others == <<coreVars, tracker, nops, concVars, xVars>>

FirstCall ==
  /\ signed = <<>>
  /\ \E inp \in SignInputs : signed' = <<SignedCall(inp)>>
  /\ UNCHANGED Others

SecondCall ==
  /\ Len(signed) = 1
  /\ \E c \in Changes : signed' = Append(signed, SignedCall(Changed(signed[1].input, c)))
  /\ UNCHANGED Others

NextSign ==
  \/ FirstCall
  \/ SecondCall

SpecSign == Init /\ [][NextSign]_vars

\* ------------------------------------------------------------------ claims
Orders == fiverr_tracker.orders

\* a step that serves one request of handler op
Served(op) == nops' = nops + 1 /\ event'.op = op

\* ---------------------------------------------------------------------- C1
\* C1 as stated: after every call in a sequence of ledger calls with
\* non-negative amounts, balance = initial_balance + total_income - total_costs.
C1_BalanceIdentity ==
  ~neg_seen =>
    tracker.balance = initial_balance + tracker.total_income - tracker.total_costs

\* C1 amended: after every call in a sequence of ledger calls with
\* non-negative amounts in which no float addition was inexact,
\* balance = initial_balance + total_income - total_costs.
C1_BalanceIdentityExact ==
  (~neg_seen /\ ~rounded) =>
    tracker.balance = initial_balance + tracker.total_income - tracker.total_costs

\* a delivery has just credited a ledger that was debited and credited before,
\* every addition exact
C1_Witness ==
  /\ ~neg_seen /\ ~rounded
  /\ event.op = "deliver" /\ event.code = "ok"
  /\ tracker.total_costs > 0
  /\ tracker.total_income > event.amount

\* ---------------------------------------------------------------------- C2
\* C2: over every sequence of new-order, background generation and deliver
\* requests, each order enters delivered, and is credited to the ledger, at
\* most once.
C2_DeliveredAtMostOnce ==
  \A i \in 1..Len(delivered_count) : delivered_count[i] <= 1

\* ---------------------------------------------------------------------- C3
\* C3: generate_deliverable called for an order that is already
\* ready_for_delivery or delivered leaves the order store as it is (the
\* deliverable is not overwritten, the status does not change).
C3_GenerateRejected ==
  [][ ( /\ event'.op = "auto_generate" /\ event'.code = "ok"
        /\ Len(background') < Len(background)
        /\ FindOrder(Orders, event'.id) # 0
        /\ Orders[FindOrder(Orders, event'.id)].status
             \in {"ready_for_delivery", "delivered"} )
      => fiverr_tracker'.orders = Orders ]_vars

\* ---------------------------------------------------------------------- C4
\* C4: a deliver request for an existing order whose status is not
\* ready_for_delivery is answered with an error and changes neither the order
\* store, deliveries_completed, fiverr_earnings nor any ledger field.
C4_DeliverRejected ==
  [][ ( /\ Served("deliver")
        /\ FindOrder(Orders, event'.id) # 0
        /\ Orders[FindOrder(Orders, event'.id)].status # "ready_for_delivery" )
      => ( /\ event'.code = "error"
           /\ fiverr_tracker' = fiverr_tracker
           /\ tracker' = tracker ) ]_vars

\* a deliver request was just rejected for an order that is delivered
C4_Witness ==
  /\ event.op = "deliver" /\ event.code = "error"
  /\ FindOrder(Orders, event.id) # 0
  /\ Orders[FindOrder(Orders, event.id)].status = "delivered"
  /\ fiverr_tracker.deliveries_completed = 1

\* ---------------------------------------------------------------------- C5
\* C5: the only status changes an order makes are in_progress ->
\* ready_for_delivery and ready_for_delivery -> delivered.
C5_OnlyForwardTransitions ==
  [][ \A i \in 1..Len(Orders) :
        \/ fiverr_tracker'.orders[i].status = Orders[i].status
        \/ /\ Orders[i].status = "in_progress"
           /\ fiverr_tracker'.orders[i].status = "ready_for_delivery"
        \/ /\ Orders[i].status = "ready_for_delivery"
           /\ fiverr_tracker'.orders[i].status = "delivered" ]_vars

\* ---------------------------------------------------------------------- C6
\* C6: in every reachable ledger state the status get_status returns is
\* thriving iff balance > 50, critical iff balance < 10, and surviving
\* otherwise, decided on the unrounded balance.
C6_StatusThresholds ==
  LET st == get_status(tracker).status
      b == tracker.balance
  IN  /\ st \in {"thriving", "surviving", "critical"}
      /\ (st = "thriving") <=> (b > 50 * Dollar)
      /\ (st = "critical") <=> (b < 10 * Dollar)
      /\ (st = "surviving") <=> (b >= 10 * Dollar /\ b <= 50 * Dollar)

\* the balance is exactly 50 and the status is surviving
C6_Witness ==
  /\ tracker.balance = 50 * Dollar
  /\ get_status(tracker).status = "surviving"

\* the balance is below 10, is reported as 10.00, and the status is critical
C6_WitnessUnrounded ==
  /\ tracker.balance < 10 * Dollar
  /\ get_status(tracker).balance = 1000
  /\ get_status(tracker).status = "critical"

\* ---------------------------------------------------------------------- C7
\* C7: whatever the interleaving of concurrent ledger requests and status
\* reads, every status read returns, and every state with no request in
\* progress has, balance = initial_balance + total_income - total_costs.
C7_Serialized ==
  /\ observed.balance = initial_balance + observed.total_income - observed.total_costs
  /\ (\A t \in Threads : threads[t].op = "idle") =>
       tracker.balance = initial_balance + tracker.total_income - tracker.total_costs

\* no request in progress, and an update was lost
C7_LostUpdate ==
  (\A t \in Threads : threads[t].op = "idle") =>
    tracker.balance = initial_balance + tracker.total_income - tracker.total_costs

\* ---------------------------------------------------------------------- C8
\* C8: on every signed-call path, if any of the four credentials is empty,
\* the endpoint makes no outbound HTTP call and reports a configuration
\* error to its caller (HTTP 500, or an error body); it leaves out no
\* signed call without telling.
AnyCredentialEmpty == \E n \in CredentialNames : env[n] = <<>>

C8_FailFast ==
  (AnyCredentialEmpty /\ xcall.op # "none") =>
    /\ xcall.sent = <<>>
    /\ xcall.skipped = 0
    /\ xcall.outcome \in {"http_500", "error_returned"}

\* the engage cycle refused under a missing access token secret
C8_Witness ==
  /\ env["X_ACCESS_TOKEN_SECRET"] = <<>>
  /\ env["X_CONSUMER_KEY"] # <<>>
  /\ xcall.op = "engage_cycle"
  /\ xcall.outcome = "error_returned"
  /\ xcall.sent = <<>>

\* ---------------------------------------------------------------------- C9
Sig(c) == c.request.auth.oauth_signature

\* how many of nonce, timestamp and the four credentials differ
ProtocolDiff(a, b) ==
  Cardinality({n \in CredentialNames : a.input.e[n] # b.input.e[n]})
    + (IF a.input.nonce # b.input.nonce THEN 1 ELSE 0)
    + (IF a.input.timestamp # b.input.timestamp THEN 1 ELSE 0)

QueryDiff(a, b) == IF a.request.query # b.request.query THEN 1 ELSE 0
BodyDiff(a, b) == IF a.request.body # b.request.body THEN 1 ELSE 0

C10_FiveSections ==
  (event.op = "research" /\ event.code = "ok") =>
    /\ Len(event.report) = 1
    /\ DOMAIN event.report[1].sections = SectionNames
    /\ \A s \in SectionNames :
         LET sec == event.report[1].sections[s]
         IN  IF provider[s] < 0
             THEN /\ sec.sources = 0
                  /\ Len(sec.key_findings) = 1
                  /\ sec.key_findings[1] = "Search error: e"
             ELSE /\ sec.sources = provider[s]
                  /\ Len(sec.key_findings) = Min(provider[s], 5)

\* the first and third queries failed and the last one was answered
C10_Witness ==
  /\ event.op = "research" /\ event.code = "ok"
  /\ provider["market_overview"] < 0 /\ provider["trends"] < 0
  /\ provider["pricing"] = 8
  /\ event.report[1].sections["pricing"].sources = 8
  /\ event.report[1].sections["trends"].sources = 0

Addressed(order_id) == FindOrder(Orders, order_id)

\* a deliver request was accepted in this step for an order of gig_type
DeliveredNow(gig_type) ==
  /\ Served("deliver") /\ event'.code = "ok"
  /\ Orders[Addressed(event'.id)].gig_type = gig_type

\* C12 (as stated): delivering a ready order of gig type "security"
\* increases total_income by exactly 75 and sets the order to delivered.
C12_SecurityCredits75 ==
  [][ DeliveredNow("security") =>
        /\ tracker'.total_income = tracker.total_income + 75 * Dollar
        /\ fiverr_tracker'.orders[Addressed(event'.id)].status = "delivered" ]_vars

\* C12 (amended): delivering a ready order of gig type "security"
\* increases total_income by exactly 50, the catalog price of the
\* security gig, and sets the order to delivered.
C12_SecurityCredits50 ==
  [][ DeliveredNow("security") =>
        /\ Orders[Addressed(event'.id)].status = "ready_for_delivery"
        /\ tracker'.total_income = tracker.total_income + 50 * Dollar
        /\ fiverr_tracker'.orders[Addressed(event'.id)].status = "delivered" ]_vars

\* a security order was just delivered and the ledger's income is 25.00 of
\* its research run plus 50.00
C12_Witness ==
  /\ event.op = "deliver" /\ event.code = "ok"
  /\ Orders[FindOrder(Orders, event.id)].gig_type = "security"
  /\ Orders[FindOrder(Orders, event.id)].status = "delivered"
  /\ tracker.total_income = 75 * Dollar
  /\ event.amount = 50 * Dollar

\* --------------------------------------------------------------------- C13
\* the catalog: category -> price, and the price of its first entry for a
\* gig type it lacks
CatalogPrice(gig_type) ==
  CASE gig_type = "security" -> 50 * Dollar
    [] gig_type = "research" -> 35 * Dollar
    [] gig_type = "ai_security" -> 75 * Dollar
    [] OTHER -> 50 * Dollar

\* C13: an accepted deliver credits the ledger, and answers with, the
\* price of the catalog entry whose category is the order's gig type, and
\* the price of the first catalog entry when no category matches, whatever
\* budget was submitted with the order.
C13_CatalogPriceCredited ==
  [][ (Served("deliver") /\ event'.code = "ok") =>
        LET order == Orders[Addressed(event'.id)]
        IN  /\ tracker'.total_income = tracker.total_income + CatalogPrice(order.gig_type)
            /\ fiverr_tracker'.fiverr_earnings =
                 fiverr_tracker.fiverr_earnings + CatalogPrice(order.gig_type)
            /\ event'.amount = CatalogPrice(order.gig_type) ]_vars

\* an order of a gig type the catalog lacks, submitted with budget 5.00,
\* was delivered and credited 50.00
C13_Witness ==
  /\ event.op = "deliver" /\ event.code = "ok"
  /\ Orders[FindOrder(Orders, event.id)].gig_type = "logo"
  /\ budget_of[FindOrder(Orders, event.id)] = 5 * Dollar
  /\ event.amount = 50 * Dollar
  /\ tracker.total_income = 75 * Dollar

\* --------------------------------------------------------------------- C14
\* C14: a start_task whose estimated_cost is negative, and a successful
\* complete_task whose actual_revenue is negative, leave balance,
\* total_income, total_costs and tasks_completed as they were.
C14_NegativeAmountRejected ==
  [][ ((Served("start_task") \/ Served("complete_task")) /\ event'.amount < 0) =>
        /\ tracker'.balance = tracker.balance
        /\ tracker'.total_income = tracker.total_income
        /\ tracker'.total_costs = tracker.total_costs
        /\ tracker'.tasks_completed = tracker.tasks_completed ]_vars

\* --------------------------------------------------------------------- C15
\* a step in which track_income is called: a successful complete_task, a
\* research run that finishes (requested, or run in the background), an
\* accepted deliver
IncomeEvent ==
  \/ Served("complete_task") /\ event'.code = "completed"
  \/ Served("research") /\ event'.code = "ok"
  \/ runs' = runs + 1 /\ event'.op = "auto_generate" /\ event'.code = "ok"
  \/ Served("deliver") /\ event'.code = "ok"

\* C15: tasks_completed starts at 0, every income event adds exactly one to
\* it, and no other step (track_cost, a failed task, a status read, a
\* rejected deliver, a new order, a run that does not finish) changes it.
C15_CompletedCountsIncomeEvents ==
  /\ tracker.tasks_completed = 0
  /\ [][ tracker'.tasks_completed =
           tracker.tasks_completed + (IF IncomeEvent THEN 1 ELSE 0) ]_vars

\* three income events of three kinds: a background research run, the
\* delivery of its order, and a successful task
C15_Witness ==
  /\ tracker.tasks_completed = 3
  /\ fiverr_tracker.deliveries_completed = 1
  /\ runs = 1
  /\ event.op = "complete_task" /\ event.code = "completed"

\* --------------------------------------------------------------------- C16
\* a step of the background deliverable generation
GenerationStep == runs' = runs + 1 /\ event'.op = "auto_generate"

\* C16: the answer to new-order carries the created order in_progress with
\* no deliverable; when it is given the generation for that order is
\* pending and no research run has been made for it; the generation runs
\* as a later step for a pending task, answers no request, and changes
\* nothing but the ledger, the order store and the pending tasks.
C16_GenerationAfterResponse ==
  [][ /\ Served("new_order") =>
           /\ event'.report[1].status = "in_progress"
           /\ event'.report[1].deliverable = NoDeliverable
           /\ event'.report[1] = fiverr_tracker'.orders[Len(fiverr_tracker'.orders)]
           /\ Len(background') = Len(background) + 1
           /\ background'[Len(background')].order_id = event'.id
           /\ runs' = runs
           /\ tracker' = tracker
      /\ GenerationStep =>
           /\ \E k \in 1..Len(background) : background[k].order_id = event'.id
           /\ Len(background') = Len(background) - 1
           /\ nops' = nops
           /\ event'.report = <<>> ]_vars

\* a second order has just been answered in_progress with its generation
\* pending, while the first order's generation has run
C16_Witness ==
  /\ event.op = "new_order"
  /\ Len(Orders) = 2
  /\ Orders[1].status = "ready_for_delivery"
  /\ Orders[1].order_id # Orders[2].order_id
  /\ event.report[1].status = "in_progress"
  /\ Len(background) = 1 /\ background[1].order_id = event.id

\* --------------------------------------------------------------------- C17
\* C17: in every reachable state no two orders of the store share an
\* order_id.
C17_UniqueOrderIds ==
  \A i, j \in 1..Len(Orders) : Orders[i].order_id = Orders[j].order_id => i = j

\* --------------------------------------------------------------------- C18
\* C18: a deliver request, and a generate_deliverable call, that names an
\* id no order of the store has, reports not found (HTTP 404, or the error
\* answer) and leaves the orders, deliveries_completed, fiverr_earnings and
\* the ledger unchanged.
C18_NotFoundNoEffect ==
  [][ ((Served("deliver") \/ Served("generate_deliverable"))
         /\ \A i \in 1..Len(Orders) : Orders[i].order_id # event'.id) =>
        /\ Served("deliver") => event'.code = "404"
        /\ Served("generate_deliverable") => event'.code = "not_found"
        /\ fiverr_tracker' = fiverr_tracker
        /\ tracker' = tracker ]_vars

\* generate_deliverable has just answered not found for an id the store,
\* which holds a delivered order, does not have
C18_Witness ==
  /\ event.op = "generate_deliverable" /\ event.code = "not_found"
  /\ Len(Orders) = 1
  /\ Orders[1].status = "delivered"
  /\ Orders[1].order_id # event.id

\* a deliver request has just been answered 404 while the store holds a
\* ready order of another id
C18_WitnessDeliver ==
  /\ event.op = "deliver" /\ event.code = "404"
  /\ Len(Orders) = 1
  /\ Orders[1].status = "ready_for_delivery"

\* --------------------------------------------------------------------- C19
\* C19: when the research run of a background generation raises, the error
\* is recorded on the order the task was started for (the order's record
\* changes), and no request is answered with it.
C19_ErrorRecordedOnOrder ==
  [][ (GenerationStep /\ event'.code = "printed") =>
        /\ nops' = nops
        /\ fiverr_tracker'.orders[Addressed(event'.id)] # Orders[Addressed(event'.id)] ]_vars

\* --------------------------------------------------------------------- C20
\* percent-encoding as the protocol defines it: letters, digits, - . _ ~
\* stay, every other character becomes % and two hex digits
Escaped ==
  ("&" :> <<"%", "2", "6">>) @@ ("=" :> <<"%", "3", "D">>) @@
  ("%" :> <<"%", "2", "5">>) @@ (":" :> <<"%", "3", "A">>) @@
  ("/" :> <<"%", "2", "F">>) @@ ("," :> <<"%", "2", "C">>) @@
  (" " :> <<"%", "2", "0">>)

RECURSIVE Enc(_)
Enc(s) ==
  IF Len(s) = 0 THEN <<>>
  ELSE Enc(SubSeq(s, 1, Len(s) - 1))
         \o (IF s[Len(s)] \in DOMAIN Escaped THEN Escaped[s[Len(s)]] ELSE <<s[Len(s)]>>)

\* the parameters call c signs: the six protocol parameters, and the query
\* parameters of a mentions call
SigningParams(c) ==
  LET protocol ==
        { <<"oauth_consumer_key", c.input.e["X_CONSUMER_KEY"]>>,
          <<"oauth_nonce", c.input.nonce>>,
          <<"oauth_signature_method", <<"HMAC-SHA1">> >>,
          <<"oauth_timestamp", c.input.timestamp>>,
          <<"oauth_token", c.input.e["X_ACCESS_TOKEN"]>>,
          <<"oauth_version", <<"1.0">> >> }
      specific ==
        IF c.input.op = "get_mentions"
        THEN { <<"max_results", IF c.input.max_results < 100
                                 THEN <<"10">> ELSE <<"100">> >>,
               <<"tweet.fields",
                 <<"created_at", ",", "author_id", ",", "conversation_id">> >> }
        ELSE {}
  IN  protocol \cup specific

\* key k comes before key l
KeyBefore(k, l) ==
  \E i, j \in 1..Len(KeyOrder) : i < j /\ KeyOrder[i] = k /\ KeyOrder[j] = l

\* enc(key)=enc(value) of every pair of ps, ascending by key, joined by &
RECURSIVE Rendered(_)
Rendered(ps) ==
  IF ps = {} THEN <<>>
  ELSE LET last == CHOOSE p \in ps : \A q \in ps \ {p} : KeyBefore(q[1], p[1])
           rest == ps \ {last}
       IN  Rendered(rest) \o (IF rest = {} THEN <<>> ELSE <<"&">>)
             \o Enc(<<last[1]>>) \o <<"=">> \o Enc(last[2])

\* C20: the base string of every signed call is METHOD & enc(url) &
\* enc(parameter string), where the parameter string holds every signing
\* parameter (protocol and call-specific) exactly once, ascending by key,
\* as enc(key)=enc(value) joined by &.
C20_BaseString ==
  \A n \in 1..Len(signed) :
    LET c == signed[n]
    IN  /\ c.request.method \in {"POST", "GET"}
        /\ Sig(c).msg = <<c.request.method, "&">> \o Enc(c.request.url) \o <<"&">>
                          \o Enc(Rendered(SigningParams(c)))

\* a mentions call signed under a consumer key holding a reserved
\* character: eight parameters, max_results first and tweet.fields last
C20_Witness ==
  /\ Len(signed) = 1
  /\ signed[1].input.op = "get_mentions"
  /\ signed[1].input.e["X_CONSUMER_KEY"] = <<"k", "&", "1">>
  /\ signed[1].input.max_results = 150
  /\ Cardinality(SigningParams(signed[1])) = 8
  /\ SubSeq(Sig(signed[1]).msg, 1, 2) = <<"GET", "&">>
  /\ Len(Sig(signed[1]).msg) > 60

\* --------------------------------------------------------------------- C21
\* C21: when one order has been placed, generated by a research run that
\* did not raise, and delivered, and nothing else has touched the ledger,
\* the ledger has moved from its initial state by exactly total_costs
\* +0.50, total_income +25.00 + the price of the order's gig and
\* tasks_completed +2 (the research run of the generation and the delivery
\* each count as an income event).
C21_LifecycleLedgerChange ==
  (Len(Orders) = 1 /\ runs = 1 /\ Orders[1].status = "delivered") =>
    /\ tracker.total_costs = HalfDollar
    /\ tracker.total_income = 25 * Dollar + CatalogPrice(Orders[1].gig_type)
    /\ tracker.tasks_completed = 2
    /\ tracker.tasks_failed = 0
    /\ tracker.balance = initial_balance - HalfDollar + 25 * Dollar
                           + CatalogPrice(Orders[1].gig_type)

\* an ai_security order went through new-order, generation and deliver:
\* income 25.00 + 75.00
C21_Witness ==
  /\ Len(Orders) = 1 /\ runs = 1 /\ Orders[1].status = "delivered"
  /\ Orders[1].gig_type = "ai_security"
  /\ Orders[1].deliverable = 1
  /\ event.op = "deliver" /\ event.code = "ok"
  /\ tracker.total_income = 100 * Dollar

\* --------------------------------------------------------------------- C22
\* the prices of the delivered orders among the first n, summed
RECURSIVE DeliveredPrices(_)
DeliveredPrices(n) ==
  IF n = 0 THEN 0
  ELSE DeliveredPrices(n - 1)
         + (IF Orders[n].status = "delivered"
            THEN CatalogPrice(Orders[n].gig_type) ELSE 0)

\* C22: in every state reached through new-order, background generation
\* and deliver, deliveries_completed is the number of orders whose status
\* is delivered and fiverr_earnings is the sum of the prices credited for
\* those orders.
C22_CountersMatchDelivered ==
  /\ fiverr_tracker.deliveries_completed =
       Cardinality({i \in 1..Len(Orders) : Orders[i].status = "delivered"})
  /\ fiverr_tracker.fiverr_earnings = DeliveredPrices(Len(Orders))

\* --------------------------------------------------------------------- C23
\* C23: with every background task eventually run, every order placed
\* through new-order eventually leaves in_progress for ready_for_delivery
\* unless the research run of its task raised; and an order whose task's
\* run raised is in_progress ever after (never ready, never delivered).
C23_ReadyUnlessRaised ==
  \A i \in 1..MaxOrders :
    /\ [](Len(Orders) >= i =>
            <>(/\ Len(Orders) >= i
               /\ \/ Orders[i].status # "in_progress"
                  \/ generation[i] = "raised"))
    /\ []((Len(Orders) >= i /\ generation[i] = "raised") =>
            Orders[i].status = "in_progress")

====
